---- MODULE Spec2Model ----
(***************************************************************************)
(* Model of app.py: the numeric normalizer (clean_industrial_num), the     *)
(* field extractor (extract_data_from_text), the document reconciler       *)
(* (process_pdf) and the module-level batch loop, cross-document           *)
(* aggregation and timeline completion.                                    *)
(*                                                                         *)
(* Strings are sequences of one-character strings.  A page text is a       *)
(* sequence of tokens (labels, dates, numbers, words, line breaks) that    *)
(* stands for the tokens' strings joined by single spaces; each regular    *)
(* expression of the source is an operator over that sequence.  A float    *)
(* is the exact decimal [n, k] = n / 10^k with no trailing fractional zero.*)
(***************************************************************************)
EXTENDS Integers, Sequences, FiniteSets, TLC

VARIABLES
  raw_str,      \* clean_industrial_num: the argument
  num_result,   \* clean_industrial_num: the returned float
  num_pc,       \* "start" before the call, "done" after it
  arg_text,     \* extract_data_from_text: the argument
  run,          \* extract_data_from_text: the returned data and the steps that ran
  text_pc,      \* "start" before the call, "done" after it
  pc,           \* position of the script: the batch loop, a page loop, the result
  f,            \* number of the uploaded file being (or last) processed
  page_i,       \* process_pdf: index i of the next page
  total_pages,  \* process_pdf: len(pdf.pages)
  pages_used,   \* pages opened so far in the batch
  data_map,     \* process_pdf: the records by key, in insertion order
  all_results,  \* the concatenated record lists of the files
  reported,     \* the files reported by st.error, in order
  page_log,     \* history: the page records extracted so far, with their file
  df_grouped,   \* df after groupby(...).agg(...).reset_index()
  df,           \* df as displayed and exported
  df2           \* the same steps applied to the rows of df

numvars == <<raw_str, num_result, num_pc>>

textvars == <<arg_text, run, text_pc>>

pipevars == <<pc, f, page_i, total_pages, pages_used, data_map, all_results, reported,
              page_log, df_grouped, df, df2>>

vars == <<raw_str, num_result, num_pc, arg_text, run, text_pc, pc, f, page_i, total_pages,
          pages_used, data_map, all_results, reported, page_log, df_grouped, df, df2>>

(***************************************************************************)
(* Bounds                                                                  *)
(***************************************************************************)
MaxStrLen == 6

MaxDateToks == 5

MaxAmtToks == 4

MaxDocs == 2

MaxPages == 2

(***************************************************************************)
(* Characters and decimal values                                           *)
(***************************************************************************)
Digits == {"0", "1", "2", "3", "4", "5", "6", "7", "8", "9"}

IsDigit(c) == c \in Digits

DigitVal(c) ==
  CASE c = "0" -> 0 [] c = "1" -> 1 [] c = "2" -> 2 [] c = "3" -> 3
    [] c = "4" -> 4 [] c = "5" -> 5 [] c = "6" -> 6 [] c = "7" -> 7
    [] c = "8" -> 8 [] c = "9" -> 9

\* the character class [\d,.]
NumCh == Digits \cup {",", "."}

\* re.search found nothing (None); no match is a one-element sequence of this kind
NoMatch == <<"None">>

\* float() raised ValueError
ValueError == [n |-> -1, k |-> 0]

RECURSIVE Pow10(_)
Pow10(k) == IF k = 0 THEN 1 ELSE 10 * Pow10(k - 1)

\* the float n / 10^k, written without trailing fractional zeros
RECURSIVE Float(_, _)
Float(n, k) ==
  IF k > 0 /\ n % 10 = 0 THEN Float(n \div 10, k - 1) ELSE [n |-> n, k |-> k]

Zero == Float(0, 0)

Positive(v) == v.n > 0

\* v <= w on floats
Leq(v, w) == v.n * Pow10(w.k) <= w.n * Pow10(v.k)

FMax(v, w) == IF Leq(v, w) THEN w ELSE v

SubStr(s, p, e) == [j \in 1..(e - p + 1) |-> s[p + j - 1]]

RECURSIVE Count(_, _)
Count(s, c) ==
  IF s = <<>> THEN 0 ELSE (IF Head(s) = c THEN 1 ELSE 0) + Count(Tail(s), c)

RECURSIVE DigitsToInt(_)
DigitsToInt(s) ==
  IF s = <<>> THEN 0
  ELSE DigitsToInt(SubStr(s, 1, Len(s) - 1)) * 10 + DigitVal(s[Len(s)])

(***************************************************************************)
(* clean_industrial_num                                                    *)
(***************************************************************************)
\* ends e of a match of [\d,.]*\d+\.\d{2} that starts at p
TwoDecEnds(s, p) ==
  {e \in (p + 3)..Len(s) :
     /\ \A j \in p..e : s[j] \in NumCh
     /\ IsDigit(s[e]) /\ IsDigit(s[e - 1]) /\ s[e - 2] = "." /\ IsDigit(s[e - 3])}

SetMax(S) == CHOOSE x \in S : \A y \in S : y <= x

SetMin(S) == CHOOSE x \in S : \A y \in S : x <= y

\* re.search(r'[\d,.]*\d+\.\d{2}', s): leftmost start, greedy (longest) end
SearchTwoDec(s) ==
  LET starts == {p \in 1..Len(s) : TwoDecEnds(s, p) # {}}
  IN IF starts = {} THEN NoMatch
     ELSE LET p == SetMin(starts) IN SubStr(s, p, SetMax(TwoDecEnds(s, p)))

\* re.search(r'[\d,.]+', s): the first maximal run of the class
SearchRun(s) ==
  LET starts == {p \in 1..Len(s) : s[p] \in NumCh}
  IN IF starts = {} THEN NoMatch
     ELSE LET p == SetMin(starts)
              e == SetMax({q \in p..Len(s) : \A j \in p..q : s[j] \in NumCh})
          IN SubStr(s, p, e)

\* str.split('.')
RECURSIVE Split(_)
Split(s) ==
  IF \A j \in 1..Len(s) : s[j] # "." THEN <<s>>
  ELSE LET d == SetMin({j \in 1..Len(s) : s[j] = "."})
       IN <<SubStr(s, 1, d - 1)>> \o Split(SubStr(s, d + 1, Len(s)))

\* "".join(parts)
RECURSIVE Join(_)
Join(parts) == IF parts = <<>> THEN <<>> ELSE Head(parts) \o Join(Tail(parts))

\* mutant: the first point is kept as the decimal point
MergeDots_firstPoint(clean) ==
  LET parts == Split(clean)
  IN parts[1] \o <<".">> \o Join(SubStr(parts, 2, Len(parts)))

\* "".join(parts[:-1]) + "." + parts[-1]
MergeDots(clean) ==
  LET parts == Split(clean)
  IN Join(SubStr(parts, 1, Len(parts) - 1)) \o <<".">> \o parts[Len(parts)]

\* float(clean) for a string of digits and at most one point
float(clean) ==
  LET ds == SelectSeq(clean, IsDigit)
  IN IF ds = <<>> \/ Count(clean, ".") > 1 THEN ValueError
     ELSE LET parts == Split(clean)
              k == IF Len(parts) = 2 THEN Len(parts[2]) ELSE 0
          IN Float(DigitsToInt(ds), k)

KeepDigitsAndDots(c) == IsDigit(c) \/ c = "."

clean_industrial_num(s) ==
  IF s = <<>> THEN Zero
  ELSE LET m1 == SearchTwoDec(s)
           match == IF m1 = NoMatch THEN SearchRun(s) ELSE m1
       IN IF match = NoMatch THEN Zero
          ELSE LET kept == SelectSeq(match, KeepDigitsAndDots)
                   clean == IF Count(kept, ".") > 1 THEN MergeDots(kept) ELSE kept
                   v == float(clean)
               IN IF v = ValueError THEN Zero ELSE v

(***************************************************************************)
(* Page texts: sequences of tokens; a token is a sequence of characters,   *)
(* a label being a single multi-character atom.                            *)
(***************************************************************************)
TempohBil == <<"Tempoh Bil :">>

TarikhBil == <<"Tarikh Bil">>

NoInvois == <<"No. Invois">>

JumlahPenggunaanAnda == <<"Jumlah Penggunaan Anda (">>

kWhClose == <<"kWh)">>

KegunaanKWh == <<"Kegunaan kWh">>

CajSemasa == <<"Caj Semasa">>

RM == <<"RM">>

JumlahPerluBayar == <<"Jumlah Perlu Bayar">>

Total == <<"Total">>

Word == <<"x">>

NL == <<"\n">>

\* the character class [\d\s,.]
ClassCh == Digits \cup {",", ".", " ", "\n"}

ClassTok(t) == \A j \in 1..Len(t) : t[j] \in ClassCh

\* a token that contains one of Jumlah, Total, Caj (case-insensitively)
BackupLabel(t) == t \in {JumlahPenggunaanAnda, JumlahPerluBayar, CajSemasa, Total}

\* \d{2}[./-]\d{2}[./-]\d{4}
IsDateTok(t) ==
  /\ Len(t) = 10
  /\ \A j \in {1, 2, 4, 5, 7, 8, 9, 10} : IsDigit(t[j])
  /\ t[3] \in {".", "/", "-"} /\ t[6] \in {".", "/", "-"}

\* the tokens joined by single spaces
RECURSIVE JoinSp(_)
JoinSp(toks) ==
  IF toks = <<>> THEN <<>>
  ELSE IF Len(toks) = 1 THEN Head(toks)
  ELSE Head(toks) \o <<" ">> \o JoinSp(Tail(toks))

AtomLen(c) ==
  CASE c = "Tempoh Bil :" -> 12 [] c = "Tarikh Bil" -> 10 [] c = "No. Invois" -> 10
    [] c = "Jumlah Penggunaan Anda (" -> 24 [] c = "kWh)" -> 4
    [] c = "Kegunaan kWh" -> 12 [] c = "Caj Semasa" -> 10 [] c = "RM" -> 2
    [] c = "Jumlah Perlu Bayar" -> 18 [] c = "Total" -> 5
    [] OTHER -> 1

RECURSIVE CharLen(_)
CharLen(s) == IF s = <<>> THEN 0 ELSE AtomLen(Head(s)) + CharLen(Tail(s))

\* len(text.strip())
StripLen(text) ==
  LET solid == {j \in 1..Len(text) : text[j] # NL}
  IN IF solid = {} THEN 0
     ELSE CharLen(JoinSp(SubSeq(text, SetMin(solid), SetMax(solid))))

(***************************************************************************)
(* datetime.strptime(raw_date, "%d.%m.%Y")                                 *)
(***************************************************************************)
NoDate == [day |-> 0, month |-> 0, year |-> 0]

IsLeap(y) == (y % 4 = 0 /\ y % 100 # 0) \/ y % 400 = 0

DaysIn(m, y) ==
  IF m = 2 THEN (IF IsLeap(y) THEN 29 ELSE 28)
  ELSE IF m \in {4, 6, 9, 11} THEN 30 ELSE 31

\* the separators are replaced by '.' before parsing, so all three parse alike;
\* a ValueError is swallowed by the caller's bare except and leaves dt_obj None
strptime(t) ==
  LET d == DigitsToInt(SubStr(t, 1, 2))
      m == DigitsToInt(SubStr(t, 4, 5))
      y == DigitsToInt(SubStr(t, 7, 10))
  IN IF y >= 1 /\ m \in 1..12 /\ d >= 1 /\ d <= DaysIn(m, y)
     THEN [day |-> d, month |-> m, year |-> y]
     ELSE NoDate

MonthAbbr(m) ==
  CASE m = 1 -> "Jan" [] m = 2 -> "Feb" [] m = 3 -> "Mar" [] m = 4 -> "Apr"
    [] m = 5 -> "May" [] m = 6 -> "Jun" [] m = 7 -> "Jul" [] m = 8 -> "Aug"
    [] m = 9 -> "Sep" [] m = 10 -> "Oct" [] m = 11 -> "Nov" [] m = 12 -> "Dec"

(***************************************************************************)
(* The date cascade of extract_data_from_text                              *)
(***************************************************************************)
DateIdx(text, lo, hi) == {j \in lo..hi : IsDateTok(text[j])}

\* the date tokens of text[lo..hi], in order (re.findall)
DatesIn(text, lo, hi) == SelectSeq(SubSeq(text, lo, hi), IsDateTok)

\* Tempoh\s*Bil\s*:\s*.*?\s*(date) without DOTALL, for the label at token i:
\* blank lines, then the first date of the next line, or else the first token
\* after that line and the blank lines that follow it
TempohDateAt(text, i) ==
  LET n == Len(text)
      solid == {j \in (i + 1)..n : text[j] # NL}
  IN IF solid = {} THEN 0
     ELSE LET a == SetMin(solid)
              brk == {j \in a..n : text[j] = NL}
              b == IF brk = {} THEN n ELSE SetMin(brk) - 1
              onLine == DateIdx(text, a, b)
              later == {j \in (b + 1)..n : text[j] # NL}
          IN IF onLine # {} THEN SetMin(onLine)
             ELSE IF later # {} /\ IsDateTok(text[SetMin(later)]) THEN SetMin(later)
             ELSE 0

\* Method A: the date captured by the leftmost match, parsed
MethodA(text) ==
  LET hits == {i \in 1..Len(text) : text[i] = TempohBil /\ TempohDateAt(text, i) # 0}
  IN IF hits = {} THEN NoDate
     ELSE strptime(text[TempohDateAt(text, SetMin(hits))])

\* Method B: Tarikh\s*Bil(.*?)No\.\s*Invois with DOTALL, second date of the section
MethodB(text) ==
  LET n == Len(text)
      hits == {i \in 1..n : text[i] = TarikhBil /\ \E j \in (i + 1)..n : text[j] = NoInvois}
  IN IF hits = {} THEN NoDate
     ELSE LET i == SetMin(hits)
              j == SetMin({q \in (i + 1)..n : text[q] = NoInvois})
              dates == DatesIn(text, i + 1, j - 1)
          IN IF Len(dates) >= 2 THEN strptime(dates[2]) ELSE NoDate

\* Method C: second date anywhere in the text
MethodC(text) ==
  LET dates == DatesIn(text, 1, Len(text))
  IN IF Len(dates) >= 2 THEN strptime(dates[2]) ELSE NoDate

\* 2010 <= dt_obj.year <= 2030
YearInRange(dt) == 2010 <= dt.year /\ dt.year <= 2030

(***************************************************************************)
(* The quantity lookups of extract_data_from_text                          *)
(***************************************************************************)
\* the rendered text that follows token i, from the separating space on
Suffix(text, i) ==
  IF i >= Len(text) THEN <<>> ELSE <<" ">> \o JoinSp(SubSeq(text, i + 1, Len(text)))

\* ends e of a match of [\d\s,.]+\d{2} that starts at p
CaptureEnds(s, p) ==
  {e \in (p + 2)..Len(s) :
     /\ IsDigit(s[e - 1]) /\ IsDigit(s[e])
     /\ \A j \in p..e : s[j] \in ClassCh}

\* the group of \s*([\d\s,.]+\d{2}) matched at the start of s, greedy
CaptureAt(s) ==
  IF Len(s) = 0 \/ CaptureEnds(s, 1) = {} THEN NoMatch
  ELSE SubStr(s, 1, SetMax(CaptureEnds(s, 1)))

\* the group of .*?([\d\s,.]+\d{2}) with DOTALL in s: earliest start, greedy end
CaptureIn(s) ==
  LET starts == {p \in 1..Len(s) : CaptureEnds(s, p) # {}}
  IN IF starts = {} THEN NoMatch
     ELSE LET p == SetMin(starts) IN SubStr(s, p, SetMax(CaptureEnds(s, p)))

\* label.*?([\d\s,.]+\d{2}) with DOTALL for the label at token i
CaptureAfter(text, i) == CaptureIn(Suffix(text, i))

\* re.search(label.*?([\d\s,.]+\d{2})): the group of the leftmost match
SearchLabelled(text, label) ==
  LET hits == {i \in 1..Len(text) : text[i] = label /\ CaptureAfter(text, i) # NoMatch}
  IN IF hits = {} THEN NoMatch ELSE CaptureAfter(text, SetMin(hits))

\* Jumlah\s*Penggunaan\s*Anda\s*\(([\d\s,.]+)\s*kWh\)
NewKwhMatch(text) ==
  LET n == Len(text)
      closeAt(i) == {j \in (i + 1)..n : text[j] = kWhClose
                                         /\ \A q \in (i + 1)..(j - 1) : ClassTok(text[q])}
      hits == {i \in 1..n : text[i] = JumlahPenggunaanAnda /\ closeAt(i) # {}}
  IN IF hits = {} THEN NoMatch
     ELSE LET i == SetMin(hits)
              j == SetMin(closeAt(i))
          IN IF j = i + 1 THEN <<" ">> ELSE JoinSp(SubSeq(text, i + 1, j - 1))

\* Kegunaan\s*(?:kWh|KWH|kVVh).*?([\d\s,.]+\d{2})
OldKwhMatch(text) == SearchLabelled(text, KegunaanKWh)

\* Caj\s*Semasa\s*(?:RM)?\s*([\d\s,.]+\d{2}): the amount must follow the label
NewRmMatch(text) ==
  LET n == Len(text)
      after(i) == IF i + 1 <= n /\ text[i + 1] = RM THEN Suffix(text, i + 1)
                  ELSE Suffix(text, i)
      hits == {i \in 1..n : text[i] = CajSemasa /\ CaptureAt(after(i)) # NoMatch}
  IN IF hits = {} THEN NoMatch ELSE CaptureAt(after(SetMin(hits)))

\* Jumlah\s*Perlu\s*Bayar.*?([\d\s,.]+\d{2})
OldRmMatch(text) == SearchLabelled(text, JumlahPerluBayar)

\* list(re.finditer((?:Jumlah|Total|Caj).*?([\d\s,.]+\d{2})))[-1].group(1):
\* the matches do not overlap, so the last one starts at or before the last
\* label that has an amount after it and captures the first such amount
BackupLast(text) ==
  LET hits == {i \in 1..Len(text) : BackupLabel(text[i]) /\ CaptureAfter(text, i) # NoMatch}
  IN IF hits = {} THEN NoMatch ELSE CaptureAfter(text, SetMax(hits))

(***************************************************************************)
(* extract_data_from_text                                                  *)
(***************************************************************************)
None == [Year |-> 0, Month |-> "None", Month_Num |-> 0,
         kWh |-> Zero, RM |-> Zero, Status |-> "None"]

\* mutant: method C runs without the "if not dt_obj" guard
DateCascade_alwaysC(text) ==
  LET dtA == MethodA(text)
      dtB == IF dtA = NoDate THEN MethodB(text) ELSE dtA
      dtC == IF MethodC(text) # NoDate THEN MethodC(text) ELSE dtB
  IN [dt_obj |-> dtC,
      tried |-> <<"A">> \o (IF dtA = NoDate THEN <<"B">> ELSE <<>>) \o <<"C">>]

\* lines 66-94: methods A, B, C in order, each run only while dt_obj is unset
DateCascade(text) ==
  LET dtA == MethodA(text)
      dtB == IF dtA = NoDate THEN MethodB(text) ELSE dtA
      dtC == IF dtB = NoDate THEN MethodC(text) ELSE dtB
  IN [dt_obj |-> dtC,
      tried |-> <<"A">> \o (IF dtA = NoDate THEN <<"B">> ELSE <<>>)
                        \o (IF dtB = NoDate THEN <<"C">> ELSE <<>>)]

\* lines 103-110: the new layout first, the old layout only if the new is absent
KwhLookup(text) ==
  LET new_kwh_match == NewKwhMatch(text)
      old_kwh_match == OldKwhMatch(text)
  IN IF new_kwh_match # NoMatch THEN clean_industrial_num(new_kwh_match)
     ELSE IF old_kwh_match # NoMatch THEN clean_industrial_num(old_kwh_match)
     ELSE Zero

\* mutant: the backup pattern runs whenever Jumlah Perlu Bayar left 0.0
RmCascade_backupOnZero(text) ==
  LET new_rm_match == NewRmMatch(text)
      rm1 == IF new_rm_match # NoMatch THEN clean_industrial_num(new_rm_match) ELSE Zero
      old_rm_match == OldRmMatch(text)
      rm2 == IF old_rm_match # NoMatch THEN clean_industrial_num(old_rm_match) ELSE Zero
      backup == BackupLast(text)
  IN [rm_val |-> IF rm1 # Zero THEN rm1
                 ELSE IF rm2 # Zero THEN rm2
                 ELSE IF backup # NoMatch THEN clean_industrial_num(backup)
                 ELSE Zero,
      tried |-> <<"CajSemasa">>
                \o (IF rm1 = Zero THEN <<"JumlahPerluBayar">> ELSE <<>>)
                \o (IF rm1 = Zero /\ rm2 = Zero THEN <<"backup">> ELSE <<>>)]

\* lines 115-128: Caj Semasa; if that left 0.0, Jumlah Perlu Bayar; the backup
\* pattern only in the else branch of the Jumlah Perlu Bayar match
RmCascade(text) ==
  LET new_rm_match == NewRmMatch(text)
      rm1 == IF new_rm_match # NoMatch THEN clean_industrial_num(new_rm_match) ELSE Zero
      old_rm_match == OldRmMatch(text)
      backup == BackupLast(text)
  IN [rm_val |-> IF rm1 # Zero THEN rm1
                 ELSE IF old_rm_match # NoMatch THEN clean_industrial_num(old_rm_match)
                 ELSE IF backup # NoMatch THEN clean_industrial_num(backup)
                 ELSE rm1,
      tried |-> <<"CajSemasa">>
                \o (IF rm1 = Zero THEN <<"JumlahPerluBayar">> ELSE <<>>)
                \o (IF rm1 = Zero /\ old_rm_match = NoMatch THEN <<"backup">> ELSE <<>>)]

\* mutant: a record is returned for every valid date
HasQuantity_always(kwh_val, rm_val) == TRUE

\* line 130: kwh_val > 0 or rm_val > 0
HasQuantity(kwh_val, rm_val) == Positive(kwh_val) \/ Positive(rm_val)

\* lines 130-139: the record, or None, with the steps that ran
RunRecord(dc, valid, kwh_val, rc) ==
  [data |-> IF valid /\ HasQuantity(kwh_val, rc.rm_val)
            THEN [Year |-> dc.dt_obj.year, Month |-> MonthAbbr(dc.dt_obj.month),
                  Month_Num |-> dc.dt_obj.month, kWh |-> kwh_val, RM |-> rc.rm_val,
                  Status |-> "Found"]
            ELSE None,
   dt_obj |-> dc.dt_obj, date_tried |-> dc.tried, quantities_tried |-> valid,
   kwh_val |-> kwh_val, rm_val |-> rc.rm_val, rm_tried |-> rc.tried]

\* lines 97-128: the quantities are looked up only under a valid date
RunQuantities(text, dc, valid) ==
  RunRecord(dc, valid,
            IF valid THEN KwhLookup(text) ELSE Zero,
            IF valid THEN RmCascade(text) ELSE [rm_val |-> Zero, tried |-> <<>>])

\* line 97: if dt_obj and 2010 <= dt_obj.year <= 2030
RunDated(text, dc) ==
  RunQuantities(text, dc, dc.dt_obj # NoDate /\ YearInRange(dc.dt_obj))

\* the run of extract_data_from_text: the returned data, and which steps ran
ExtractRun(text) == RunDated(text, DateCascade(text))

extract_data_from_text(text) == ExtractRun(text).data

(***************************************************************************)
(* process_pdf: one page                                                   *)
(***************************************************************************)
\* page.extract_text() gave None or an empty string
NoText == <<>>

\* convert_from_bytes returned an empty list
NoImages == <<<<"no images">>>>

\* lines 162-170: the OCR text is read only if the direct text gave no record
OcrFallback(first, ocr) ==
  IF first # None THEN first
  ELSE IF ocr = NoImages THEN None
  ELSE extract_data_from_text(ocr)

\* lines 155-170: the direct text if it is long enough and yields a record,
\* otherwise the OCR text of the page image
PageDataOf(direct, ocr) ==
  OcrFallback(IF direct # NoText /\ StripLen(direct) > 50
              THEN extract_data_from_text(direct) ELSE None, ocr)

SameKey(r, q) == r.Year = q.Year /\ r.Month_Num = q.Month_Num

\* mutant: the page's fields replace the stored ones even when they are zero
Merge_overwrite(dm, page_data) ==
  IF page_data = None THEN dm
  ELSE LET at == {j \in 1..Len(dm) : SameKey(dm[j], page_data)}
       IN IF at = {} THEN Append(dm, page_data)
          ELSE [dm EXCEPT ![SetMin(at)] =
                  [@ EXCEPT !.kWh = page_data.kWh, !.RM = page_data.RM,
                            !.Status = "Found"]]

\* mutant: a stored positive field is never replaced by a later page
Merge_keepStored(dm, page_data) ==
  IF page_data = None THEN dm
  ELSE LET at == {j \in 1..Len(dm) : SameKey(dm[j], page_data)}
       IN IF at = {} THEN Append(dm, page_data)
          ELSE [dm EXCEPT ![SetMin(at)] =
                  [@ EXCEPT !.kWh = IF Positive(@) THEN @ ELSE page_data.kWh,
                            !.RM = IF Positive(@) THEN @ ELSE page_data.RM,
                            !.Status = "Found"]]

\* lines 172-182: a new key is stored as is; for a stored key each positive field
\* of the page replaces the stored one and the status is set to Found
Merge(dm, page_data) ==
  IF page_data = None THEN dm
  ELSE LET at == {j \in 1..Len(dm) : SameKey(dm[j], page_data)}
       IN IF at = {} THEN Append(dm, page_data)
          ELSE [dm EXCEPT ![SetMin(at)] =
                  [@ EXCEPT !.kWh = IF Positive(page_data.kWh) THEN page_data.kWh ELSE @,
                            !.RM = IF Positive(page_data.RM) THEN page_data.RM ELSE @,
                            !.Status = "Found"]]

\* mutant: the except clause discards the records stored so far
ReturnedOnError_empty(dm) == <<>>

\* line 193 reached through the except clause: list(data_map.values())
ReturnedOnError(dm) == dm

(***************************************************************************)
(* Cross-document aggregation and timeline completion                      *)
(***************************************************************************)
KeyOf(r) == <<r.Year, r.Month_Num>>

KeysOf(rows) == {KeyOf(rows[j]) : j \in 1..Len(rows)}

KeyLess(a, b) == a[1] < b[1] \/ (a[1] = b[1] /\ a[2] < b[2])

\* the group keys in ascending order, as groupby sorts them
RECURSIVE SortKeys(_)
SortKeys(S) ==
  IF S = {} THEN <<>>
  ELSE LET m == CHOOSE a \in S : \A b \in S : a = b \/ KeyLess(a, b)
       IN <<m>> \o SortKeys(S \ {m})

RECURSIVE MaxOf(_, _)
MaxOf(g, field) ==
  IF Len(g) = 1 THEN g[1][field] ELSE FMax(g[1][field], MaxOf(Tail(g), field))

\* mutant: the last member of the group instead of the maximum
AggMax_last(g, field) == g[Len(g)][field]

\* 'kWh': 'max' and 'RM': 'max'
AggMax(g, field) == MaxOf(g, field)

\* 'Month': 'first' and 'Status': 'first'
AggFirst(g, field) == g[1][field]

\* lines 211-219: groupby(['Year', 'Month_Num']).agg(...).reset_index()
Aggregate(rows) ==
  LET keys == SortKeys(KeysOf(rows))
      group(k) == SelectSeq(rows, LAMBDA r : KeyOf(r) = k)
  IN [j \in 1..Len(keys) |->
        [Year |-> keys[j][1], Month_Num |-> keys[j][2],
         Month |-> AggFirst(group(keys[j]), "Month"),
         kWh |-> AggMax(group(keys[j]), "kWh"),
         RM |-> AggMax(group(keys[j]), "RM"),
         Status |-> AggFirst(group(keys[j]), "Status")]]

\* line 222: the first day of the row's month, counted in months
DateOf(r) == r.Year * 12 + (r.Month_Num - 1)

\* mutant: the range stops before max_date
DateRange_exclusiveEnd(min_date, max_date) ==
  [j \in 1..(max_date - min_date) |-> min_date + j - 1]

\* mutant: the range runs one month past max_date
DateRange_oneMore(min_date, max_date) ==
  [j \in 1..(max_date - min_date + 2) |-> min_date + j - 1]

\* line 227: pd.date_range(start=min_date, end=max_date, freq='MS')
DateRange(min_date, max_date) == [j \in 1..(max_date - min_date + 1) |-> min_date + j - 1]

\* lines 228-237: left merge on the date, then the NaN cells are filled
MergeAndFill(all_months, rows) ==
  LET rowsAt(d) == SelectSeq(rows, LAMBDA r : DateOf(r) = d)
      filled(d, r) == [Year |-> d \div 12, Month |-> MonthAbbr((d % 12) + 1),
                       Month_Num |-> (d % 12) + 1, kWh |-> r.kWh, RM |-> r.RM,
                       Status |-> r.Status]
      missing(d) == [Year |-> d \div 12, Month |-> MonthAbbr((d % 12) + 1),
                     Month_Num |-> (d % 12) + 1, kWh |-> Zero, RM |-> Zero,
                     Status |-> "MISSING"]
      block(d) == IF rowsAt(d) = <<>> THEN <<missing(d)>>
                  ELSE [j \in 1..Len(rowsAt(d)) |-> filled(d, rowsAt(d)[j])]
      RECURSIVE blocks(_)
      blocks(ms) == IF ms = <<>> THEN <<>> ELSE block(Head(ms)) \o blocks(Tail(ms))
  IN blocks(all_months)

\* line 239: sort_values(['Year', 'Month_Num'])
RECURSIVE SortValues(_)
SortValues(rows) ==
  IF rows = <<>> THEN <<>>
  ELSE LET m == SetMin({j \in 1..Len(rows) :
                          \A q \in 1..Len(rows) : ~KeyLess(KeyOf(rows[q]), KeyOf(rows[j]))})
       IN <<rows[m]>> \o SortValues(SubSeq(rows, 1, m - 1) \o SubSeq(rows, m + 1, Len(rows)))

\* lines 222-239 for a non-empty frame
Complete(grouped) ==
  LET dates == {DateOf(grouped[j]) : j \in 1..Len(grouped)}
  IN SortValues(MergeAndFill(DateRange(SetMin(dates), SetMax(dates)), grouped))

(***************************************************************************)
(* The inputs of a page                                                    *)
(***************************************************************************)
Chars_01_11_2023 == <<"0", "1", ".", "1", "1", ".", "2", "0", "2", "3">>

Chars_15_01_2024 == <<"1", "5", ".", "0", "1", ".", "2", "0", "2", "4">>

Chars_28_02_2024 == <<"2", "8", ".", "0", "2", ".", "2", "0", "2", "4">>

Chars_500 == <<"5", "0", "0">>

Chars_300 == <<"3", "0", "0">>

Chars_300_00 == <<"3", "0", "0", ".", "0", "0">>

Chars_0_00 == <<"0", ".", "0", "0">>

PageDates == {Chars_01_11_2023, Chars_15_01_2024, Chars_28_02_2024}

KwhParts == {<<>>, <<JumlahPenggunaanAnda, Chars_500, kWhClose>>,
             <<JumlahPenggunaanAnda, Chars_300, kWhClose>>}

RmParts == {<<CajSemasa, Chars_300_00>>, <<CajSemasa, Chars_0_00>>}

\* Tempoh Bil : <date> [Jumlah Penggunaan Anda ( <n> kWh)] Caj Semasa <amount>
PageTexts == {<<TempohBil, d>> \o k \o r : d \in PageDates, k \in KwhParts, r \in RmParts}

\* what one page can yield, over every direct text and every OCR outcome
PageOutcomes == {PageDataOf(direct, ocr) : direct \in {NoText} \cup PageTexts,
                                            ocr \in {NoImages} \cup PageTexts}

(***************************************************************************)
(* Specification of the script: the batch loop and what follows it         *)
(***************************************************************************)
NumOff == raw_str = <<>> /\ num_result = Zero /\ num_pc = "off"

NoRun == [data |-> None, dt_obj |-> NoDate, date_tried |-> <<>>,
          quantities_tried |-> FALSE, kwh_val |-> Zero, rm_val |-> Zero,
          rm_tried |-> <<>>]

TextOff == arg_text = <<>> /\ run = NoRun /\ text_pc = "off"

PipeOff ==
  /\ pc = "off" /\ f = 0 /\ page_i = 0 /\ total_pages = 0 /\ pages_used = 0
  /\ data_map = <<>> /\ all_results = <<>> /\ reported = <<>> /\ page_log = <<>>
  /\ df_grouped = <<>> /\ df = <<>> /\ df2 = <<>>

Init ==
  /\ NumOff /\ TextOff
  /\ pc = "next_file" /\ f = 0 /\ page_i = 0 /\ total_pages = 0 /\ pages_used = 0
  /\ data_map = <<>> /\ all_results = <<>> /\ reported = <<>> /\ page_log = <<>>
  /\ df_grouped = <<>> /\ df = <<>> /\ df2 = <<>>

\* line 207: if data: all_results.extend(data)
Extend(results, data) == IF data # <<>> THEN results \o data ELSE results

\* lines 205-206 and 143-147: the next file is opened and has n pages
OpenFile ==
  /\ pc = "next_file" /\ f < MaxDocs
  /\ \E n \in 0..(MaxPages - pages_used) :
       /\ total_pages' = n
       /\ pages_used' = pages_used + n
       /\ pc' = IF n = 0 THEN "next_file" ELSE "page"
  /\ f' = f + 1 /\ page_i' = 0 /\ data_map' = <<>>
  /\ UNCHANGED <<all_results, reported, page_log, df_grouped, df, df2>>
  /\ UNCHANGED <<numvars, textvars>>

\* lines 146 and 190-193: pdfplumber.open raises; the file is reported and
\* process_pdf returns the empty list
OpenError ==
  /\ pc = "next_file" /\ f < MaxDocs
  /\ f' = f + 1 /\ page_i' = 0 /\ total_pages' = 0 /\ data_map' = <<>>
  /\ reported' = Append(reported, f + 1)
  /\ all_results' = Extend(all_results, ReturnedOnError(<<>>))
  /\ UNCHANGED <<pc, pages_used, page_log, df_grouped, df, df2>>
  /\ UNCHANGED <<numvars, textvars>>

\* lines 151-186 for page i, and lines 188-193 and 207 after the last page
ProcessPage ==
  /\ pc = "page" /\ page_i < total_pages
  /\ \E page_data \in PageOutcomes :
       /\ data_map' = Merge(data_map, page_data)
       /\ page_log' = IF page_data = None THEN page_log
                      ELSE Append(page_log, [file |-> f, data |-> page_data])
  /\ page_i' = page_i + 1
  /\ IF page_i + 1 = total_pages
     THEN pc' = "next_file" /\ all_results' = Extend(all_results, data_map')
     ELSE pc' = "page" /\ UNCHANGED all_results
  /\ UNCHANGED <<f, total_pages, pages_used, reported, df_grouped, df, df2>>
  /\ UNCHANGED <<numvars, textvars>>

\* lines 155-168 raise on page i (text extraction, rasterization or OCR);
\* lines 190-193: the file is reported and the records stored so far are returned
PageError ==
  /\ pc = "page" /\ page_i < total_pages
  /\ reported' = Append(reported, f)
  /\ all_results' = Extend(all_results, ReturnedOnError(data_map))
  /\ pc' = "next_file"
  /\ UNCHANGED <<f, page_i, total_pages, pages_used, data_map, page_log, df_grouped, df, df2>>
  /\ UNCHANGED <<numvars, textvars>>

\* lines 209-239: the batch loop has ended with records
Finish ==
  /\ pc = "next_file" /\ f > 0 /\ all_results # <<>>
  /\ df_grouped' = Aggregate(all_results)
  /\ df' = Complete(Aggregate(all_results))
  /\ pc' = "done"
  /\ UNCHANGED <<f, page_i, total_pages, pages_used, data_map, all_results, reported,
                 page_log, df2>>
  /\ UNCHANGED <<numvars, textvars>>

\* lines 297-298: the batch loop has ended without a record
NoData ==
  /\ pc = "next_file" /\ f > 0 /\ all_results = <<>>
  /\ pc' = "no_data"
  /\ UNCHANGED <<f, page_i, total_pages, pages_used, data_map, all_results, reported,
                 page_log, df_grouped, df, df2>>
  /\ UNCHANGED <<numvars, textvars>>

\* lines 211-239 applied to the rows of the completed frame
Rerun ==
  /\ pc = "done"
  /\ df2' = Complete(Aggregate(df))
  /\ pc' = "rerun"
  /\ UNCHANGED <<f, page_i, total_pages, pages_used, data_map, all_results, reported,
                 page_log, df_grouped, df>>
  /\ UNCHANGED <<numvars, textvars>>

Next ==
  \/ OpenFile
  \/ OpenError
  \/ ProcessPage
  \/ PageError
  \/ Finish
  \/ NoData
  \/ Rerun

Spec == Init /\ [][Next]_vars

(***************************************************************************)
(* Specification of the normalizer on bounded strings                      *)
(***************************************************************************)
NumAlphabet == {"1", "2", ".", ",", " "}

StringsUpTo(A, n) == UNION {[1..k -> A] : k \in 0..n}

NumInit ==
  /\ raw_str \in StringsUpTo(NumAlphabet, MaxStrLen)
  /\ num_result = Zero
  /\ num_pc = "start"
  /\ TextOff /\ PipeOff

Normalize ==
  /\ num_pc = "start"
  /\ num_result' = clean_industrial_num(raw_str)
  /\ num_pc' = "done"
  /\ UNCHANGED <<raw_str, textvars, pipevars>>

NumNext == Normalize

SpecNum == NumInit /\ [][NumNext]_vars

(***************************************************************************)
(* Specification of the field extractor on bounded texts                   *)
(***************************************************************************)
Chars_15_03_2023 == <<"1", "5", ".", "0", "3", ".", "2", "0", "2", "3">>

Chars_31_02_2023 == <<"3", "1", ".", "0", "2", ".", "2", "0", "2", "3">>

Chars_15_03_2009 == <<"1", "5", ".", "0", "3", ".", "2", "0", "0", "9">>

Chars_12_3 == <<"1", "2", ".", "3">>

DateAlphabet == {TempohBil, TarikhBil, NoInvois, NL, Chars_15_03_2023,
                 Chars_01_11_2023, Chars_31_02_2023, Chars_15_03_2009}

AmountAlphabet == {CajSemasa, JumlahPerluBayar, Total, KegunaanKWh, Word,
                   Chars_300_00, Chars_0_00, Chars_12_3}

\* texts that vary the dates and end in one amount, and texts that begin with
\* one labelled date and vary the amounts
DateTexts == StringsUpTo(DateAlphabet, MaxDateToks)

AmountTexts == StringsUpTo(AmountAlphabet, MaxAmtToks)

TextInit ==
  /\ \/ \E t \in DateTexts : arg_text = t \o <<CajSemasa, Chars_300_00>>
     \/ \E t \in AmountTexts : arg_text = <<TempohBil, Chars_15_03_2023>> \o t
  /\ run = NoRun
  /\ text_pc = "start"
  /\ NumOff /\ PipeOff

Extract ==
  /\ text_pc = "start"
  /\ run' = ExtractRun(arg_text)
  /\ text_pc' = "done"
  /\ UNCHANGED <<arg_text, numvars, pipevars>>

TextNext == Extract

SpecText == TextInit /\ [][TextNext]_vars

(***************************************************************************)
(* Properties                                                              *)
(***************************************************************************)
Range(q) == {q[j] : j \in 1..Len(q)}

\* the calendar month that follows the month of row r
FollowsInCalendar(r, q) ==
  \/ q.Year = r.Year /\ q.Month_Num = r.Month_Num + 1
  \/ q.Year = r.Year + 1 /\ r.Month_Num = 12 /\ q.Month_Num = 1

EarliestKey(rows) == CHOOSE a \in KeysOf(rows) : \A b \in KeysOf(rows) : a = b \/ KeyLess(a, b)

LatestKey(rows) == CHOOSE a \in KeysOf(rows) : \A b \in KeysOf(rows) : a = b \/ KeyLess(b, a)

\* C1: the completed timeline starts at the earliest observed month, ends at the
\* latest, each row is the calendar successor of the row before it (so every
\* month of the span occurs exactly once, none outside it, in ascending order);
\* with no aggregated record nothing is emitted
C1_ContiguousTimeline ==
  /\ pc \in {"done", "rerun"} =>
       /\ all_results # <<>> /\ df # <<>>
       /\ KeyOf(df[1]) = EarliestKey(all_results)
       /\ KeyOf(df[Len(df)]) = LatestKey(all_results)
       /\ \A j \in 1..(Len(df) - 1) : FollowsInCalendar(df[j], df[j + 1])
       /\ \A j \in 1..Len(df) : df[j].Month_Num \in 1..12
                                 /\ df[j].Month = MonthAbbr(df[j].Month_Num)
  /\ all_results = <<>> => df = <<>> /\ pc \notin {"done", "rerun"}

\* November 2023 and February 2024 observed: Nov, Dec, Jan, Feb are emitted
C1_Witness ==
  /\ pc = "done" /\ Len(df) = 4
  /\ KeyOf(df[1]) = <<2023, 11>> /\ KeyOf(df[4]) = <<2024, 2>>
  /\ df[2].Status = "MISSING" /\ df[3].Status = "MISSING"

\* the page records of one file for one key, in page order
EntriesOf(file, key) ==
  SelectSeq(page_log, LAMBDA e : e.file = file /\ KeyOf(e.data) = key)

\* the value of the last entry whose field is positive, 0.0 if there is none
LastPositive(es, field) ==
  LET pos == {j \in 1..Len(es) : Positive(es[j].data[field])}
  IN IF pos = {} THEN Zero ELSE es[SetMax(pos)].data[field]

\* C2: within one document the stored record of a key holds, per field, the
\* value of the last page of that key whose value is positive (a zero never
\* replaces a stored value), its status is Found, and each key is stored once
C2_MergePolicy ==
  /\ \A j \in 1..Len(data_map) :
       LET es == EntriesOf(f, KeyOf(data_map[j]))
       IN /\ es # <<>>
          /\ data_map[j].kWh = LastPositive(es, "kWh")
          /\ data_map[j].RM = LastPositive(es, "RM")
          /\ data_map[j].Status = "Found"
          /\ \A q \in 1..Len(data_map) : SameKey(data_map[q], data_map[j]) => q = j
  /\ \A e \in Range(page_log) : e.file = f => KeyOf(e.data) \in KeysOf(data_map)

\* pages 500/0 and 0/300 of one key have merged to 500/300 Found
C2_Witness ==
  \E j \in 1..Len(data_map) :
    LET es == EntriesOf(f, KeyOf(data_map[j]))
    IN /\ Len(es) = 2
       /\ es[1].data.kWh = Float(500, 0) /\ es[1].data.RM = Zero
       /\ es[2].data.kWh = Zero /\ es[2].data.RM = Float(300, 0)
       /\ data_map[j].kWh = Float(500, 0) /\ data_map[j].RM = Float(300, 0)
       /\ data_map[j].Status = "Found"

\* v is the greatest value of the field among the rows
IsMaxOf(v, rows, field) ==
  /\ \E j \in 1..Len(rows) : rows[j][field] = v
  /\ \A j \in 1..Len(rows) : Leq(rows[j][field], v)

\* C3: the aggregate has exactly one record per distinct key of all_results, with
\* the maximum kWh and the maximum RM of the key's records and the month label
\* and status of the key's first record
C3_OnePerKeyMax ==
  pc \in {"done", "rerun"} =>
    /\ KeysOf(df_grouped) = KeysOf(all_results)
    /\ Len(df_grouped) = Cardinality(KeysOf(all_results))
    /\ \A j \in 1..Len(df_grouped) :
         LET g == SelectSeq(all_results, LAMBDA r : SameKey(r, df_grouped[j]))
         IN /\ IsMaxOf(df_grouped[j].kWh, g, "kWh")
            /\ IsMaxOf(df_grouped[j].RM, g, "RM")
            /\ df_grouped[j].Month = g[1].Month
            /\ df_grouped[j].Status = g[1].Status

\* two files hold the same key, 500 kWh first and 300 kWh second: 500 is kept
C3_Witness ==
  /\ pc = "done" /\ Len(all_results) = 2 /\ Len(df_grouped) = 1
  /\ all_results[1].kWh = Float(500, 0) /\ all_results[2].kWh = Float(300, 0)
  /\ df_grouped[1].kWh = Float(500, 0)

\* C4 as claimed: a file that is reported as failed adds no record to all_results
C4_FailedFileAddsNothing ==
  [][reported' # reported => all_results' = all_results]_vars

\* C4: when a file fails it is reported, process_pdf returns the records stored
\* from the pages read before the error (none when opening failed), those
\* records are added to all_results and the batch loop goes on to the next file
C4_FailedFileKeepsEarlierPages ==
  [][reported' # reported =>
       /\ reported' = Append(reported, f')
       /\ all_results' = all_results \o data_map'
       /\ data_map' = (IF pc = "page" THEN data_map ELSE <<>>)
       /\ pc' = "next_file"]_vars

\* file 1 failed after a page that yielded a record, the record was kept, and
\* file 2 was opened after it
C4_Witness ==
  /\ reported = <<1>>
  /\ \E e \in Range(page_log) : e.file = 1 /\ e.data \in Range(all_results)
  /\ f = 2

\* the greatest value of the field among all the page records of a key
MaxOverPages(key, field) ==
  LET vs == {e.data[field] : e \in {x \in Range(page_log) : KeyOf(x.data) = key}}
  IN CHOOSE v \in vs : \A w \in vs : Leq(w, v)

\* C5 as claimed: a Found row holds the maximum over all pages of all files
C5_MaxOverAllPages ==
  pc = "done" =>
    \A j \in 1..Len(df) :
      df[j].Status = "Found" =>
        /\ df[j].kWh = MaxOverPages(KeyOf(df[j]), "kWh")
        /\ df[j].RM = MaxOverPages(KeyOf(df[j]), "RM")

\* the greatest, over the files, of the file's last positive value of the field
MaxOverFiles(key, field) ==
  LET vs == {LastPositive(EntriesOf(file, key), field) : file \in 1..f}
  IN CHOOSE v \in vs : \A w \in vs : Leq(w, v)

\* C5: a Found row holds, per field, the maximum over the files of the value of
\* the file's last page of that key whose value is positive (0.0 if none)
C5_MaxOverFilesOfLastPositive ==
  pc = "done" =>
    \A j \in 1..Len(df) :
      df[j].Status = "Found" =>
        /\ df[j].kWh = MaxOverFiles(KeyOf(df[j]), "kWh")
        /\ df[j].RM = MaxOverFiles(KeyOf(df[j]), "RM")

\* a key read as 500 kWh and then as 300 kWh in one file ends as 300 kWh
C5_Witness ==
  /\ pc = "done"
  /\ \E j \in 1..Len(df) :
       /\ df[j].Status = "Found" /\ df[j].kWh = Float(300, 0)
       /\ MaxOverPages(KeyOf(df[j]), "kWh") = Float(500, 0)

\* C6: aggregation and completion applied to the completed timeline return it
\* unchanged: the same rows in the same order with the same values and statuses
C6_RerunIsNoOp == pc = "rerun" => df2 = df

\* the rerun of a timeline that holds Found and MISSING rows
C6_Witness ==
  /\ pc = "rerun" /\ Len(df2) >= 3
  /\ \E j \in 1..Len(df2) : df2[j].Status = "MISSING"
  /\ \E j \in 1..Len(df2) : df2[j].Status = "Found"

StatusConsistent(r) ==
  /\ r.Status \in {"Found", "MISSING"}
  /\ r.Status = "Found" => Positive(r.kWh) \/ Positive(r.RM)
  /\ r.Status = "MISSING" => r.kWh = Zero /\ r.RM = Zero

\* C7: at every stage a Found record has kWh > 0 or RM > 0 and a MISSING record
\* has kWh = 0 and RM = 0; MISSING occurs only in the completed timeline and
\* only for a month without an aggregated record; every aggregated record is
\* in the completed timeline with its kWh, RM and status unchanged
C7_StatusMatchesFields ==
  /\ \A e \in Range(page_log) : StatusConsistent(e.data) /\ e.data.Status = "Found"
  /\ \A r \in Range(data_map) \cup Range(all_results) \cup Range(df_grouped) :
       StatusConsistent(r) /\ r.Status = "Found"
  /\ \A r \in Range(df) :
       /\ StatusConsistent(r)
       /\ r.Status = "MISSING" => KeyOf(r) \notin KeysOf(df_grouped)
  /\ \A g \in Range(df_grouped) :
       \E r \in Range(df) :
         SameKey(r, g) /\ r.kWh = g.kWh /\ r.RM = g.RM /\ r.Status = g.Status

\* a timeline with a MISSING month and a Found month that has no kWh
C7_Witness ==
  /\ pc = "done"
  /\ \E r \in Range(df) : r.Status = "MISSING"
  /\ \E r \in Range(df) : r.Status = "Found" /\ r.kWh = Zero /\ Positive(r.RM)

IsDigitGroup(g) ==
  /\ g # <<>> /\ IsDigit(g[1]) /\ IsDigit(g[Len(g)])
  /\ \A j \in 1..Len(g) : g[j] \in Digits \cup {","}

\* digit groups, with or without commas inside, separated by two or more points
MultiDot(s) ==
  /\ Count(s, ".") >= 2
  /\ \A j \in 1..Len(Split(s)) : IsDigitGroup(Split(s)[j])

\* all the digits, the digits of the last group being the fraction
LastPointDecimal(s) ==
  LET parts == Split(s)
  IN Float(DigitsToInt(SelectSeq(s, IsDigit)),
           Len(SelectSeq(parts[Len(parts)], IsDigit)))

\* C8 as claimed: every multi-point string yields the number whose decimal point
\* is the last point
C8_EveryMultiDot ==
  num_pc = "done" /\ MultiDot(raw_str) => num_result = LastPointDecimal(raw_str)

LastGroupTwoDigits(s) ==
  LET last == Split(s)[Len(Split(s))]
  IN Len(last) = 2 /\ IsDigit(last[1]) /\ IsDigit(last[2])

\* C8: a multi-point string whose last group is exactly two digits yields the
\* number whose decimal point is the last point, and no call raises
C8_MultiDotTwoDecimals ==
  num_pc = "done" =>
    /\ num_result # ValueError /\ num_result.n >= 0
    /\ MultiDot(raw_str) /\ LastGroupTwoDigits(raw_str) =>
         num_result = LastPointDecimal(raw_str)

\* "1.2.12" has become 12.12
C8_Witness ==
  /\ num_pc = "done" /\ raw_str = <<"1", ".", "2", ".", "1", "2">>
  /\ num_result = Float(1212, 2)

CajSemasaValue(text) ==
  IF NewRmMatch(text) # NoMatch THEN clean_industrial_num(NewRmMatch(text)) ELSE Zero

JumlahPerluBayarValue(text) ==
  IF OldRmMatch(text) # NoMatch THEN clean_industrial_num(OldRmMatch(text)) ELSE Zero

BackupValue(text) ==
  IF BackupLast(text) # NoMatch THEN clean_industrial_num(BackupLast(text)) ELSE Zero

\* C9 as claimed: the backup pattern is used whenever Jumlah Perlu Bayar yields
\* zero, whether its label is absent or its amount is 0.0
C9_BackupWheneverZero ==
  text_pc = "done" /\ run.quantities_tried =>
    run.rm_val = IF Positive(CajSemasaValue(arg_text)) THEN CajSemasaValue(arg_text)
                 ELSE IF Positive(JumlahPerluBayarValue(arg_text))
                      THEN JumlahPerluBayarValue(arg_text)
                 ELSE BackupValue(arg_text)

\* C9: Caj Semasa is used if positive; otherwise Jumlah Perlu Bayar is used if
\* its pattern matches, even when its amount is 0.0; the backup pattern is used
\* only if the Jumlah Perlu Bayar pattern does not match
C9_BackupOnlyWithoutLabel ==
  text_pc = "done" /\ run.quantities_tried =>
    /\ run.rm_val = IF Positive(CajSemasaValue(arg_text)) THEN CajSemasaValue(arg_text)
                    ELSE IF OldRmMatch(arg_text) # NoMatch
                         THEN JumlahPerluBayarValue(arg_text)
                    ELSE BackupValue(arg_text)
    /\ "JumlahPerluBayar" \in Range(run.rm_tried) <=> ~Positive(CajSemasaValue(arg_text))
    /\ "backup" \in Range(run.rm_tried) <=>
         ~Positive(CajSemasaValue(arg_text)) /\ OldRmMatch(arg_text) = NoMatch

\* Jumlah Perlu Bayar 0.00 followed by Total 300.00: the amount stays 0.0
C9_Witness ==
  /\ text_pc = "done"
  /\ arg_text = <<TempohBil, Chars_15_03_2023, JumlahPerluBayar, Chars_0_00,
                  Total, Chars_300_00>>
  /\ run.rm_val = Zero /\ run.rm_tried = <<"CajSemasa", "JumlahPerluBayar">>
  /\ BackupValue(arg_text) = Float(300, 0)

\* C10: the date is the first parsed date of methods A, B, C in that order; B
\* runs only if A parsed none and C only if A and B parsed none; without a
\* parsed date, or with a year outside 2010..2030, absence is returned and no
\* quantity lookup runs
C10_DateCascade ==
  text_pc = "done" =>
    LET a == MethodA(arg_text)
        b == MethodB(arg_text)
        c == MethodC(arg_text)
        winner == IF a # NoDate THEN a ELSE IF b # NoDate THEN b ELSE c
    IN /\ run.dt_obj = winner
       /\ run.date_tried[1] = "A"
       /\ "B" \in Range(run.date_tried) <=> a = NoDate
       /\ "C" \in Range(run.date_tried) <=> a = NoDate /\ b = NoDate
       /\ winner = NoDate \/ winner.year < 2010 \/ winner.year > 2030 =>
            /\ run.data = None /\ ~run.quantities_tried
            /\ run.kwh_val = Zero /\ run.rm_val = Zero /\ run.rm_tried = <<>>
       /\ run.data # None => run.data.Year = winner.year
                             /\ run.data.Month_Num = winner.month

\* the Tempoh Bil date 31.02.2023 does not parse, there is no header, and the
\* second date of the text is taken
C10_Witness ==
  /\ text_pc = "done"
  /\ arg_text = <<TempohBil, Chars_31_02_2023, Chars_15_03_2023, CajSemasa, Chars_300_00>>
  /\ run.date_tried = <<"A", "B", "C">>
  /\ run.data # None /\ run.data.Year = 2023 /\ run.data.Month_Num = 3

====
